---- MODULE Spec2Model ----
(***************************************************************************)
(* Model of the GeoMap widget (orangecontrib/text/widgets/owgeomap.py):    *)
(* region extraction, map auto-selection, per-region aggregation and the   *)
(* selection callback that filters the dataset onto the 'Corpus' output.   *)
(*                                                                         *)
(* Python strings are sequences of one-character strings, so that          *)
(* lower-casing, trimming, splitting and regular-expression matching are   *)
(* computed rather than assumed.                                           *)
(***************************************************************************)
EXTENDS Integers, Sequences, FiniteSets, TLC

(***************************************************************************)
(* Bounds of the model.                                                    *)
(***************************************************************************)
\* the most rows of a table of LocTables and SelTables
MaxRows == 2
\* the most codes in one argument of region_selected in SelInputs
MaxSel == 2
\* on_data is not taken while this many deferred callbacks are waiting
MaxPending == 2

(***************************************************************************)
(* Characters and the str methods the widget uses.                         *)
(***************************************************************************)
UpperCase == <<"A","B","C","D","E","F","G","H","I","J","K","L","M",
               "N","O","P","Q","R","S","T","U","V","W","X","Y","Z">>

LowerCase == <<"a","b","c","d","e","f","g","h","i","j","k","l","m",
               "n","o","p","q","r","s","t","u","v","w","x","y","z">>

Digits == {"0","1","2","3","4","5","6","7","8","9"}

Range(f) == {f[i] : i \in DOMAIN f}

\* upper-case letter -> lower-case letter
LowerOf == [c \in Range(UpperCase) |->
               LowerCase[CHOOSE i \in DOMAIN UpperCase : UpperCase[i] = c]]

\* str.lower() on one character
LowerChar(c) == IF c \in DOMAIN LowerOf THEN LowerOf[c] ELSE c

\* str.lower()
Lower(s) == [i \in DOMAIN s |-> LowerChar(s[i])]

WordChars == Range(UpperCase) \cup Range(LowerCase) \cup Digits \cup {"_"}

\* the regular-expression class \w
IsWordChar(c) == c \in WordChars

\* the regular-expression class \s, and what str.strip() removes
IsSpace(c) == c \in {" ", "\t", "\n", "\r"}

\* the character class of CC_NAMES: [\w\s\.\-]
IsNameChar(c) == IsWordChar(c) \/ IsSpace(c) \/ c \in {".", "-"}

RECURSIVE LStrip(_)
LStrip(s) == IF s # <<>> /\ IsSpace(Head(s)) THEN LStrip(Tail(s)) ELSE s

RECURSIVE RStrip(_)
RStrip(s) ==
    IF s # <<>> /\ IsSpace(s[Len(s)]) THEN RStrip(SubSeq(s, 1, Len(s) - 1)) ELSE s

\* str.strip()
Strip(s) == RStrip(LStrip(s))

\* str.split(sep) for a one-character separator: the fields between the
\* separators, empty fields included, and one empty field for the empty string
RECURSIVE SplitFrom(_, _, _)
SplitFrom(s, sep, field) ==
    IF s = <<>> THEN <<field>>
    ELSE IF Head(s) = sep THEN <<field>> \o SplitFrom(Tail(s), sep, <<>>)
    ELSE SplitFrom(Tail(s), sep, Append(field, Head(s)))

Split(s, sep) == SplitFrom(s, sep, <<>>)

\* sep.join(parts)
RECURSIVE Join(_, _)
Join(parts, sep) ==
    IF parts = <<>> THEN <<>>
    ELSE IF Len(parts) = 1 THEN parts[1]
    ELSE parts[1] \o sep \o Join(Tail(parts), sep)

\* CC_NAMES.findall(s): the maximal runs of name characters, left to right
RECURSIVE FindallFrom(_, _)
FindallFrom(s, run) ==
    IF s = <<>> THEN (IF run = <<>> THEN <<>> ELSE <<run>>)
    ELSE IF IsNameChar(Head(s)) THEN FindallFrom(Tail(s), Append(run, Head(s)))
    ELSE (IF run = <<>> THEN <<>> ELSE <<run>>) \o FindallFrom(Tail(s), <<>>)

CC_NAMES_findall(s) == FindallFrom(s, <<>>)

(***************************************************************************)
(* orangecontrib.text.country_codes: the three region maps.  Each map has  *)
(* a code -> display-name dictionary CC_x, the inverse dictionary from     *)
(* lower-cased display name to code INV_CC_x, and the set of valid         *)
(* location values used for membership tests SET_CC_x.  The tables here    *)
(* are a small excerpt with the same shape.                                *)
(***************************************************************************)
CC_WORLD ==
    (<<"I","Q">> :> <<"I","r","a","q">>) @@
    (<<"I","T">> :> <<"I","t","a","l","y">>) @@
    (<<"G","E">> :> <<"G","e","o","r","g","i","a">>)

CC_EUROPE ==
    (<<"I","T">> :> <<"I","t","a","l","y">>) @@
    (<<"G","E">> :> <<"G","e","o","r","g","i","a">>)

CC_USA ==
    (<<"U","S","-","O","H">> :> <<"O","h","i","o">>) @@
    (<<"U","S","-","G","A">> :> <<"G","e","o","r","g","i","a">>)

Inverse(cc) ==
    [n \in {Lower(cc[c]) : c \in DOMAIN cc} |->
        CHOOSE c \in DOMAIN cc : Lower(cc[c]) = n]

INV_CC_WORLD == Inverse(CC_WORLD)

INV_CC_EUROPE == Inverse(CC_EUROPE)

INV_CC_USA == Inverse(CC_USA)

SET_CC_WORLD == DOMAIN INV_CC_WORLD \cup Range(INV_CC_WORLD)

SET_CC_EUROPE == DOMAIN INV_CC_EUROPE \cup Range(INV_CC_EUROPE)

SET_CC_USA == DOMAIN INV_CC_USA \cup Range(INV_CC_USA)

(***************************************************************************)
(* class Map                                                               *)
(***************************************************************************)
WORLD == "world_mill_en"

EUROPE == "europe_mill_en"

USA == "us_aea_en"

\* Map.all: the (label, code) items of the map combo box, index 0 first
Map_all == << <<"World", WORLD>>, <<"Europe", EUROPE>>, <<"USA", USA>> >>

\* QComboBox.itemData(index)
itemData(index) == Map_all[index + 1][2]

\* QComboBox.findData(code)
findData(code) == (CHOOSE i \in DOMAIN Map_all : Map_all[i][2] = code) - 1

\* the dictionary literal of on_map_change: map code -> (inverse map, code map)
MapTables(map_code) ==
    CASE map_code = USA -> [inv |-> INV_CC_USA, cc |-> CC_USA]
      [] map_code = WORLD -> [inv |-> INV_CC_WORLD, cc |-> CC_WORLD]
      [] map_code = EUROPE -> [inv |-> INV_CC_EUROPE, cc |-> CC_EUROPE]

(***************************************************************************)
(* The dataset.  A cell of a string column is None or a string; a table    *)
(* has a domain (its variables in the order metas, attributes, class       *)
(* variables) and rows, each row one cell per variable.  The input slot    *)
(* may also carry None.                                                    *)
(***************************************************************************)
NoneCell == [isNone |-> TRUE, str |-> <<>>]

Str(s) == [isNone |-> FALSE, str |-> s]

StringVariable(name) == [name |-> name, is_string |-> TRUE, is_discrete |-> FALSE]

DiscreteVariable(name) == [name |-> name, is_string |-> FALSE, is_discrete |-> TRUE]

NoTable == [isNone |-> TRUE, isCorpus |-> FALSE, domain |-> <<>>, rows |-> <<>>]

Table(domain, rows, isCorpus) ==
    [isNone |-> FALSE, isCorpus |-> isCorpus, domain |-> domain, rows |-> rows]

\* bool(data): None and a table without rows are false
Truthy(d) == ~d.isNone /\ Len(d.rows) > 0

\* whether data.domain[name] finds a variable (it raises KeyError otherwise)
HasVar(d, name) == \E i \in DOMAIN d.domain : d.domain[i].name = name

\* data.domain.index(data.domain[name])
VarIndex(d, name) == CHOOSE i \in DOMAIN d.domain : d.domain[i].name = name

\* data.get_column_view(index)[0]
Column(d, name) == [r \in DOMAIN d.rows |-> d.rows[r][VarIndex(d, name)]]

\* Corpus.from_table(data.domain, data): same domain and rows, as a Corpus
Corpus_from_table(d) == [d EXCEPT !.isCorpus = TRUE]

(***************************************************************************)
(* OWGeoMap._iter_locations: one tuple of location tokens per row whose    *)
(* value is not None.                                                      *)
(***************************************************************************)
StripAll(matches) == [k \in DOMAIN matches |-> Strip(matches[k])]

RowLocations(i) ==
    IF Len(i) > 3 THEN StripAll(CC_NAMES_findall(Lower(i))) ELSE <<i>>

RECURSIVE LocationsOf(_)
LocationsOf(column) ==
    IF column = <<>> THEN <<>>
    ELSE IF Head(column).isNone THEN LocationsOf(Tail(column))
    ELSE <<RowLocations(Head(column).str)>> \o LocationsOf(Tail(column))

_iter_locations(d, selected_attr) ==
    IF d.isNone THEN <<>> ELSE LocationsOf(Column(d, selected_attr))

\* the lookup data.domain[selected_attr] of _iter_locations raises KeyError
IterRaises(d, selected_attr) == ~d.isNone /\ ~HasVar(d, selected_attr)

(***************************************************************************)
(* The widget.  data, selected_attr, selected_map and regions are the      *)
(* fields of OWGeoMap; varmodel and map_combo are the two combo boxes;     *)
(* out is the value standing on the 'Corpus' output; js holds the globals  *)
(* of the web view; pending is the queue of zero-delay QTimer callbacks.   *)
(* called, sent and raised record the last handler run: which handler      *)
(* with which argument, the values it sent, and whether it raised.         *)
(***************************************************************************)
VARIABLES data, varmodel, selected_attr, selected_map, map_combo, regions,
          out, js, pending, called, sent, raised

vars == <<data, varmodel, selected_attr, selected_map, map_combo, regions,
          out, js, pending, called, sent, raised>>

\* the widget as one record, as the handlers read and update it
Self ==
    [data |-> data, varmodel |-> varmodel, selected_attr |-> selected_attr,
     selected_map |-> selected_map, map_combo |-> map_combo,
     regions |-> regions, out |-> out, js |-> js, pending |-> pending,
     sent |-> <<>>, raised |-> FALSE]

Becomes(self) ==
    /\ data' = self.data
    /\ varmodel' = self.varmodel
    /\ selected_attr' = self.selected_attr
    /\ selected_map' = self.selected_map
    /\ map_combo' = self.map_combo
    /\ regions' = self.regions
    /\ out' = self.out
    /\ js' = self.js
    /\ pending' = self.pending
    /\ sent' = self.sent
    /\ raised' = self.raised

\* the value None on the output, and a filtered subset of table src
NoOutput == [isNone |-> TRUE, src |-> NoTable, idx |-> {}]

Subset(src, idx) == [isNone |-> FALSE, src |-> src, idx |-> idx]

\* self.send('Corpus', value)
send(self, value) == [self EXCEPT !.out = value, !.sent = Append(@, value)]

\* an exception leaves the handler; what was assigned before it stays
raise(self) == [self EXCEPT !.raised = TRUE]

\* QTimer.singleShot(0, callback)
singleShot(self, callback) == [self EXCEPT !.pending = Append(@, callback)]

(***************************************************************************)
(* FilterRegex(attr, pattern, re.IGNORECASE) and Table._filter_values.     *)
(* The pattern is the alternation of \b code \b over the selected regions; *)
(* the codes contain no regular-expression metacharacters.                 *)
(***************************************************************************)
\* \b at offset p of s (0 <= p <= Len(s)): exactly one side is a word character
WordBoundary(s, p) ==
    (p > 0 /\ IsWordChar(s[p])) # (p < Len(s) /\ IsWordChar(s[p + 1]))

\* AltSearch without the \b anchors: a plain case-insensitive substring search
AltSearch_unanchored(code, s) ==
    \E p \in 0..(Len(s) - Len(code)) :
        Lower(SubSeq(s, p + 1, p + Len(code))) = Lower(code)

\* the alternative \b code \b matches s at some offset, ignoring case
AltSearch(code, s) ==
    \E p \in 0..(Len(s) - Len(code)) :
        /\ WordBoundary(s, p)
        /\ Lower(SubSeq(s, p + 1, p + Len(code))) = Lower(code)
        /\ WordBoundary(s, p + Len(code))

\* FilterRegex.__call__: re.search of the alternation in (value or '')
FilterRegex(codes, cell) ==
    \E k \in DOMAIN codes :
        AltSearch(codes[k], IF cell.isNone THEN <<>> ELSE cell.str)

\* data._filter_values(filter): the rows whose value in the column matches
filter_values(d, attr, codes) ==
    Subset(d, {r \in DOMAIN d.rows : FilterRegex(codes, Column(d, attr)[r])})

(***************************************************************************)
(* OWGeoMap.region_selected                                                *)
(***************************************************************************)
\* region_selected whose early return tests only self.data is None
region_selected_no_clear(self, r) ==
    LET s1 == IF r = <<>> THEN [self EXCEPT !.regions = <<>>] ELSE self
    IN  IF s1.data.isNone THEN send(s1, NoOutput)
        ELSE LET s2 == [s1 EXCEPT !.regions = Split(r, ",")]
             IN  IF ~HasVar(s2.data, s2.selected_attr) THEN raise(s2)
                 ELSE IF s2.data.domain[VarIndex(s2.data, s2.selected_attr)].is_discrete
                      THEN s2
                 ELSE send(s2, filter_values(s2.data, s2.selected_attr, s2.regions))

\* region_selected that stores the argument unsplit, as a one-element list
region_selected_unsplit(self, r) ==
    LET s1 == IF r = <<>> THEN [self EXCEPT !.regions = <<>>] ELSE self
    IN  IF r = <<>> \/ s1.data.isNone THEN send(s1, NoOutput)
        ELSE LET s2 == [s1 EXCEPT !.regions = <<r>>]
             IN  IF ~HasVar(s2.data, s2.selected_attr) THEN raise(s2)
                 ELSE IF s2.data.domain[VarIndex(s2.data, s2.selected_attr)].is_discrete
                      THEN s2
                 ELSE send(s2, filter_values(s2.data, s2.selected_attr, s2.regions))

region_selected(self, r) ==
    LET s1 == IF r = <<>> THEN [self EXCEPT !.regions = <<>>] ELSE self
    IN  IF r = <<>> \/ s1.data.isNone THEN send(s1, NoOutput)
        ELSE LET s2 == [s1 EXCEPT !.regions = Split(r, ",")]
             IN  IF ~HasVar(s2.data, s2.selected_attr) THEN raise(s2)
                 ELSE IF s2.data.domain[VarIndex(s2.data, s2.selected_attr)].is_discrete
                      THEN s2
                 ELSE send(s2, filter_values(s2.data, s2.selected_attr, s2.regions))

(***************************************************************************)
(* OWGeoMap.on_map_change                                                  *)
(***************************************************************************)
\* inv_cc_map.get(loc, loc)
Resolve(inv, loc) == IF loc \in DOMAIN inv THEN inv[loc] ELSE loc

\* set(...) of a sequence, listed in order of first occurrence (the order in
\* which Python iterates the set does not change the counts)
RECURSIVE Dedupe(_, _)
Dedupe(seq, seen) ==
    IF seq = <<>> THEN <<>>
    ELSE IF Head(seq) \in seen THEN Dedupe(Tail(seq), seen)
    ELSE <<Head(seq)>> \o Dedupe(Tail(seq), seen \cup {Head(seq)})

\* RowKeys building a list instead of a set: a code is kept once per token
RowKeys_list(inv, locations) ==
    [k \in DOMAIN locations |-> Resolve(inv, locations[k])]

\* keys = set(inv_cc_map.get(loc, loc) for loc in locations)
RowKeys(inv, locations) ==
    Dedupe([k \in DOMAIN locations |-> Resolve(inv, locations[k])], {})

\* data[key] += 1 on a defaultdict(int)
Increment(counts, key) ==
    IF key \in DOMAIN counts THEN [counts EXCEPT ![key] = @ + 1]
    ELSE counts @@ (key :> 1)

\* CountKeys without the test 'if key in cc_map'
RECURSIVE CountKeys_unchecked(_, _, _)
CountKeys_unchecked(counts, keys, cc) ==
    IF keys = <<>> THEN counts
    ELSE CountKeys_unchecked(Increment(counts, Head(keys)), Tail(keys), cc)

\* for key in keys: if key in cc_map: data[key] += 1
RECURSIVE CountKeys(_, _, _)
CountKeys(counts, keys, cc) ==
    IF keys = <<>> THEN counts
    ELSE CountKeys(IF Head(keys) \in DOMAIN cc THEN Increment(counts, Head(keys))
                   ELSE counts,
                   Tail(keys), cc)

\* for locations in self._iter_locations(): ...
RECURSIVE CountRows(_, _, _, _)
CountRows(counts, rows, inv, cc) ==
    IF rows = <<>> THEN counts
    ELSE CountRows(CountKeys(counts, RowKeys(inv, Head(rows)), cc), Tail(rows), inv, cc)

on_map_change(self, map_code_arg) ==
    LET s1 == IF map_code_arg # ""
              THEN [self EXCEPT !.map_combo = findData(map_code_arg)]
              ELSE self
        map_code == IF map_code_arg # "" THEN map_code_arg
                    ELSE itemData(s1.selected_map)
        t == MapTables(map_code)
    IN  IF IterRaises(s1.data, s1.selected_attr) THEN raise(s1)
        ELSE [s1 EXCEPT !.js =
                 [@ EXCEPT !.hasDATA = TRUE,
                           !.DATA = CountRows(<<>>,
                                        _iter_locations(s1.data, s1.selected_attr),
                                        t.inv, t.cc),
                           !.MAP_CODE = map_code,
                           !.SELECTED_REGIONS = s1.regions]]

(***************************************************************************)
(* OWGeoMap.on_attr_change                                                 *)
(***************************************************************************)
\* set(chain.from_iterable(self._iter_locations()))
Values(rows) == UNION {Range(rows[r]) : r \in DOMAIN rows}

\* AutoMap that tests the Europe set before the USA set
AutoMap_europe_first(values) ==
    IF values \ SET_CC_EUROPE = {} THEN EUROPE
    ELSE IF values \ SET_CC_USA = {} THEN USA
    ELSE WORLD

AutoMap(values) ==
    IF values \ SET_CC_USA = {} THEN USA
    ELSE IF values \ SET_CC_EUROPE = {} THEN EUROPE
    ELSE WORLD

on_attr_change(self) ==
    IF self.selected_attr = <<>> THEN self
    ELSE IF IterRaises(self.data, self.selected_attr) THEN raise(self)
    ELSE on_map_change(self,
             AutoMap(Values(_iter_locations(self.data, self.selected_attr))))

(***************************************************************************)
(* OWGeoMap._repopulate_attr_combo and OWGeoMap.on_data                    *)
(***************************************************************************)
StartsWith(s, prefix) ==
    Len(s) >= Len(prefix) /\ SubSeq(s, 1, Len(prefix)) = prefix

DefaultPrefixes ==
    {<<"c","o","u","n","t","r","y">>, <<"l","o","c","a","t","i","o","n">>,
     <<"r","e","g","i","o","n">>}

_repopulate_attr_combo(self, d) ==
    LET IsString(a) == a.is_string
        IsDefault(a) == \E p \in DefaultPrefixes : StartsWith(Lower(a.name), p)
        vs == IF Truthy(d) THEN SelectSeq(d.domain, IsString) ELSE <<>>
        preferred == SelectSeq(vs, IsDefault)
    IN  [self EXCEPT !.varmodel = [k \in DOMAIN vs |-> vs[k].name],
                     !.selected_attr =
                         IF preferred # <<>> THEN preferred[1].name
                         ELSE IF vs # <<>> THEN vs[1].name
                         ELSE <<>>]

on_data(self, d) ==
    LET d1 == IF Truthy(d) /\ ~d.isCorpus THEN Corpus_from_table(d) ELSE d
        s1 == _repopulate_attr_combo([self EXCEPT !.data = d1], d1)
    IN  IF ~Truthy(d1)
        THEN singleShot(region_selected(s1, <<>>), "clear")
        ELSE singleShot(s1, "on_attr_change")

\* the deferred callbacks: the REGIONS assignment scheduled by _create_layout,
\* the lambda 'DATA = {}; renderMap();' of on_data, and on_attr_change
run_callback(self, callback) ==
    CASE callback = "REGIONS" -> [self EXCEPT !.js = [@ EXCEPT !.hasREGIONS = TRUE]]
      [] callback = "clear" ->
            [self EXCEPT !.js = [@ EXCEPT !.hasDATA = TRUE, !.DATA = <<>>]]
      [] callback = "on_attr_change" -> on_attr_change(self)

(***************************************************************************)
(* Inputs: the tables arriving on the 'Data' slot and the strings the map  *)
(* passes to region_selected.                                              *)
(***************************************************************************)
SeqsUpTo(S, n) == UNION {[1..k -> S] : k \in 0..n}

Region == <<"R","e","g","i","o","n">>

RegionDomain == <<StringVariable(Region)>>

NamedDomain == <<StringVariable(<<"n","a","m","e">>), StringVariable(Region)>>

KindDomain == <<DiscreteVariable(<<"k","i","n","d">>)>>

IT == <<"I","T">>

US_OH == <<"U","S","-","O","H">>

Ohio == <<"O","h","i","o">>

\* the values of a location column: missing, empty, a short code (also with
\* a leading blank), display names, free text with a known and an unknown
\* name, one name twice, a name that is in two maps
Cells ==
    {NoneCell,
     Str(<<>>),
     Str(IT),
     Str(<<" ","I","T">>),
     Str(Ohio),
     Str(<<"I","r","a","q",","," ","M","a","r","s">>),
     Str(<<"I","t","a","l","y",";","I","T","A","L","Y">>),
     Str(<<"G","e","o","r","g","i","a">>)}

\* the values the selection is matched against: missing, a code, texts that
\* contain a code only inside a longer word, codes in lower case
FilterCells ==
    {NoneCell,
     Str(IT),
     Str(<<"I","t","a","l","y",";","I","T","A","L","Y">>),
     Str(<<"i","t","/","u","s","-","o","h">>),
     Str(<<"U","S","-","O","H","I","O">>)}

\* the region codes the map can report
SelCodes == {IT, US_OH}

\* region_selected's argument: up to MaxSel codes joined by commas
SelInputs == {Join(l, <<",">>) : l \in SeqsUpTo(SelCodes, MaxSel)}

\* the values of the regions setting kept from an earlier session
StoredRegions == {<<>>, <<IT>>}

TablesOver(domain, rowset, n) ==
    {Table(domain, rows, FALSE) : rows \in SeqsUpTo(rowset, n)}

\* tables of up to MaxRows rows: one location column over Cells, or a name
\* column beside it
LocTables ==
    TablesOver(RegionDomain, {<<c>> : c \in Cells}, MaxRows)
    \cup TablesOver(NamedDomain,
                    {<<n, c>> : n \in {NoneCell, Str(Ohio)}, c \in {Str(IT), NoneCell}},
                    MaxRows)

\* tables of up to MaxRows rows with one column over FilterCells
SelTables == TablesOver(RegionDomain, {<<c>> : c \in FilterCells}, MaxRows)

\* the 'Data' inputs of the event model: None, tables without rows, short
\* tables with one or two string columns, and a table with no string column
DataInputs ==
    {NoTable, Table(RegionDomain, <<>>, FALSE), Table(RegionDomain, <<>>, TRUE),
     Table(RegionDomain, << <<Str(IT)>> >>, FALSE),
     Table(RegionDomain, << <<Str(Ohio)>> >>, TRUE),
     Table(NamedDomain, << <<Str(Ohio), Str(IT)>> >>, FALSE),
     Table(KindDomain, << <<NoneCell>> >>, FALSE)}

\* the selections of the event model: cleared, one code, two codes
MapSelections == {<<>>, IT, Join(<<IT, US_OH>>, <<",">>)}

(***************************************************************************)
(* The initial state: __init__ with the settings at their defaults or as   *)
(* stored by an earlier session, and the REGIONS assignment scheduled.     *)
(***************************************************************************)
NoJS ==
    [hasREGIONS |-> FALSE, hasDATA |-> FALSE, DATA |-> <<>>,
     MAP_CODE |-> "", SELECTED_REGIONS |-> <<>>]

Constructed(stored_regions, stored_map) ==
    [data |-> NoTable, varmodel |-> <<>>, selected_attr |-> <<>>,
     selected_map |-> stored_map, map_combo |-> stored_map,
     regions |-> stored_regions, out |-> NoOutput, js |-> NoJS,
     pending |-> <<"REGIONS">>, sent |-> <<>>, raised |-> FALSE]

Is(self) ==
    /\ data = self.data
    /\ varmodel = self.varmodel
    /\ selected_attr = self.selected_attr
    /\ selected_map = self.selected_map
    /\ map_combo = self.map_combo
    /\ regions = self.regions
    /\ out = self.out
    /\ js = self.js
    /\ pending = self.pending
    /\ sent = self.sent
    /\ raised = self.raised

Call(op, arg) == [op |-> op, arg |-> arg]

Init ==
    /\ \E r \in StoredRegions : Is(Constructed(r, 0))
    /\ called = Call("__init__", <<>>)

\* the widget with default settings after its first table
InitWith(tables) ==
    /\ \E d \in tables : Is(on_data(Constructed(<<>>, 0), d))
    /\ called = Call("on_data", <<>>)

(***************************************************************************)
(* The events.                                                             *)
(***************************************************************************)
\* a table arrives on the 'Data' input
OnData ==
    \E d \in DataInputs :
        /\ Len(pending) < MaxPending
        /\ Becomes(on_data(Self, d))
        /\ called' = Call("on_data", <<>>)

\* the map reports a selection
RegionSelectedWith(r) ==
    /\ Becomes(region_selected(Self, r))
    /\ called' = Call("region_selected", r)

RegionSelected == \E r \in MapSelections : RegionSelectedWith(r)

RegionSelectedRich == \E r \in SelInputs : RegionSelectedWith(r)

\* the user activates an item of the attribute combo: the combo stores the
\* variable's name in selected_attr and calls on_attr_change
AttrActivated ==
    \E k \in DOMAIN varmodel :
        /\ Becomes(on_attr_change([Self EXCEPT !.selected_attr = varmodel[k]]))
        /\ called' = Call("on_attr_change", <<>>)

\* the user activates an item of the map combo: the combo stores the index in
\* selected_map and calls on_map_change without argument
MapActivated ==
    \E index \in 0..(Len(Map_all) - 1) :
        /\ Becomes(on_map_change(
               [Self EXCEPT !.selected_map = index, !.map_combo = index], ""))
        /\ called' = Call("on_map_change", <<>>)

\* the event loop runs the oldest deferred callback
Timer ==
    /\ pending # <<>>
    /\ Becomes(run_callback([Self EXCEPT !.pending = Tail(@)], Head(pending)))
    /\ called' = Call(Head(pending), <<>>)

Next == OnData \/ RegionSelected \/ AttrActivated \/ MapActivated \/ Timer

\* the widget under every order of its events
Spec == Init /\ [][Next]_vars

NextLoc == AttrActivated \/ MapActivated \/ Timer

\* extraction, auto-selection and aggregation over LocTables
SpecLoc == InitWith(LocTables) /\ [][NextLoc]_vars

NextSel == RegionSelectedRich \/ Timer

\* the selection callback over SelTables
SpecSel == InitWith(SelTables) /\ [][NextSel]_vars

(***************************************************************************)
(* Properties.                                                             *)
(***************************************************************************)
\* the last handler run went through on_map_change's rendering
JustRendered ==
    /\ ~raised
    /\ \/ called.op = "on_map_change"
       \/ called.op = "on_attr_change" /\ selected_attr # <<>>

\* on_attr_change ran to its end on a selected column
AttrChanged == called.op = "on_attr_change" /\ selected_attr # <<>> /\ ~raised

\* the location tokens of the current dataset and column
CurrentLocations == _iter_locations(data, selected_attr)

\* C1: whenever region_selected is called with the empty string, in any
\* widget state, the stored selection becomes the empty list and the one value
\* sent on 'Corpus' is None; so too when on_data calls it for an empty or
\* missing dataset.
C1_ClearSendsNone ==
    \/ called.op = "region_selected" /\ called.arg = <<>>
    \/ called.op = "on_data" /\ ~Truthy(data)
    => regions = <<>> /\ sent = <<NoOutput>> /\ out = NoOutput /\ ~raised

\* C1 witness: the selection is cleared while a dataset with a location column
\* is present and a non-empty selection had been drawn on the map.
C1_Witness ==
    /\ called.op = "region_selected" /\ called.arg = <<>>
    /\ ~data.isNone /\ selected_attr # <<>>
    /\ js.SELECTED_REGIONS # <<>>

\* the map chosen for a token set, by quantification over the tokens
ExpectedMap(tokens) ==
    IF \A t \in tokens : t \in SET_CC_USA THEN USA
    ELSE IF \A t \in tokens : t \in SET_CC_EUROPE THEN EUROPE
    ELSE WORLD

\* C2: after on_attr_change on a non-empty selected column the map drawn (and
\* shown in the map combo) is USA if every location token of the rows is a
\* valid USA code, else Europe if every token is a valid Europe code, else
\* World; USA wins when both sets contain every token.
C2_AutoSelection ==
    AttrChanged =>
        /\ js.MAP_CODE = ExpectedMap(Values(CurrentLocations))
        /\ itemData(map_combo) = js.MAP_CODE

\* C2 witness: some tokens, all of them valid in both the USA and the Europe
\* set, and the USA map chosen.
C2_Witness ==
    /\ AttrChanged
    /\ Values(CurrentLocations) # {}
    /\ Values(CurrentLocations) \subseteq (SET_CC_USA \cap SET_CC_EUROPE)
    /\ js.MAP_CODE = USA

\* s contains code as a whole word, ignoring case: an occurrence with no word
\* character right before it and none right after it
ContainsWord(code, s) ==
    \E p \in 1..(Len(s) - Len(code) + 1) :
        /\ \A k \in 1..Len(code) : LowerChar(s[p + k - 1]) = LowerChar(code[k])
        /\ p = 1 \/ ~IsWordChar(s[p - 1])
        /\ p + Len(code) > Len(s) \/ ~IsWordChar(s[p + Len(code)])

\* the rows of the current dataset whose value in the selected column contains
\* one of the stored codes as a whole word
MatchingRows ==
    {r \in DOMAIN data.rows :
        LET cell == Column(data, selected_attr)[r]
        IN  ~cell.isNone /\ \E k \in DOMAIN regions : ContainsWord(regions[k], cell.str)}

\* region_selected ran with a non-empty list on a dataset whose selected column
\* exists and is not discrete
Filtered ==
    /\ called.op = "region_selected" /\ called.arg # <<>>
    /\ ~data.isNone /\ HasVar(data, selected_attr)
    /\ ~data.domain[VarIndex(data, selected_attr)].is_discrete

\* C3: region_selected with a non-empty code list, a dataset present and a
\* non-discrete selected column sends exactly the rows of the current dataset
\* whose value contains, as a whole word and ignoring case, one of the codes.
C3_FilteredSubset ==
    Filtered => sent = <<Subset(data, MatchingRows)>> /\ out = Subset(data, MatchingRows)

\* C3 witness: two codes selected, some row sent and some row held back.
C3_Witness ==
    /\ Filtered
    /\ Len(regions) = 2
    /\ ~out.isNone /\ out.idx # {} /\ out.idx # DOMAIN data.rows

\* C4 as stated: after every region_selected call the stored list is the
\* argument split on commas (the empty list for the empty string), with or
\* without a dataset.
C4_AlwaysStored ==
    called.op = "region_selected" =>
        regions = (IF called.arg = <<>> THEN <<>> ELSE Split(called.arg, ","))

\* C4 amended: a region_selected call with a non-empty list stores the list
\* split on commas if a dataset is present and leaves the stored list as it
\* was if none is; a call with the empty string stores the empty list.
C4_StoredWhenDataPresent ==
    [][called'.op = "region_selected" =>
          regions' = (IF called'.arg = <<>> THEN <<>>
                      ELSE IF data.isNone THEN regions
                      ELSE Split(called'.arg, ","))]_vars

\* C4 witness: a two-code selection stored while a dataset is present.
C4_Witness ==
    /\ called.op = "region_selected"
    /\ ~data.isNone
    /\ Len(called.arg) > Len(IT)
    /\ Len(regions) = 2

\* the tokens that are in one of the three sets of valid location values
KnownTokens == SET_CC_WORLD \cup SET_CC_EUROPE \cup SET_CC_USA

\* the rows' tokens with every token outside KnownTokens removed
WithoutUnknown(rows) ==
    LET IsKnown(t) == t \in KnownTokens
    IN  [r \in DOMAIN rows |-> SelectSeq(rows[r], IsKnown)]

\* C5: tokens that are in none of the three region sets do not contribute:
\* the counts drawn equal the counts of the same rows with those tokens
\* removed, whatever the dataset, column and active map.
C5_UnknownTokensIgnored ==
    JustRendered =>
        js.DATA = CountRows(<<>>, WithoutUnknown(CurrentLocations),
                            MapTables(js.MAP_CODE).inv, MapTables(js.MAP_CODE).cc)

\* C5 witness: counts drawn for rows that hold an unknown token.
C5_Witness ==
    /\ JustRendered
    /\ js.DATA # <<>>
    /\ Values(CurrentLocations) \ KnownTokens # {}
    /\ Values(CurrentLocations) \ KnownTokens # {<<>>}

\* a cell that is neither None nor the empty string
IsPresent(cell) == ~cell.isNone /\ cell.str # <<>>

\* C6 as stated: rows whose value is None or the empty string yield no token,
\* so the tokens and the auto-selected map are those of the other rows.
C6_MissingAndEmptySkipped ==
    AttrChanged =>
        LET present == LocationsOf(SelectSeq(Column(data, selected_attr), IsPresent))
        IN  /\ CurrentLocations = present
            /\ js.MAP_CODE = AutoMap(Values(present))

\* the reference aggregation: per code of the active map, the number of rows
\* with a token that resolves to it
AggregationRef(rows, inv, cc) ==
    LET resolved(r) == {IF t \in DOMAIN inv THEN inv[t] ELSE t : t \in Range(rows[r])}
        counted == {c \in DOMAIN cc : \E r \in DOMAIN rows : c \in resolved(r)}
    IN  [c \in counted |-> Cardinality({r \in DOMAIN rows : c \in resolved(r)})]

\* C7: the counts drawn by on_map_change equal the reference aggregation, so a
\* row adds at most one to a region and no count exceeds the number of rows.
C7_Aggregation ==
    JustRendered =>
        /\ js.DATA = AggregationRef(CurrentLocations,
                                    MapTables(js.MAP_CODE).inv, MapTables(js.MAP_CODE).cc)
        /\ \A c \in DOMAIN js.DATA : js.DATA[c] <= Len(data.rows)

\* C7 witness: a counted region that one row names twice.
C7_Witness ==
    /\ JustRendered
    /\ \E r \in DOMAIN CurrentLocations :
          \E i, j \in DOMAIN CurrentLocations[r] :
              /\ i # j
              /\ Resolve(MapTables(js.MAP_CODE).inv, CurrentLocations[r][i])
                 = Resolve(MapTables(js.MAP_CODE).inv, CurrentLocations[r][j])
              /\ Resolve(MapTables(js.MAP_CODE).inv, CurrentLocations[r][i])
                 \in DOMAIN js.DATA

\* C8 as stated: a value longer than 3 characters yields the lower-cased,
\* trimmed matches of CC_NAMES; any other value yields one token, the value
\* trimmed of surrounding whitespace.
C8_ShortValuesTrimmed ==
    AttrChanged =>
        \A r \in DOMAIN data.rows :
            LET cell == Column(data, selected_attr)[r]
            IN  ~cell.isNone =>
                    RowLocations(cell.str) =
                        (IF Len(cell.str) > 3
                         THEN StripAll(CC_NAMES_findall(Lower(cell.str)))
                         ELSE <<Strip(cell.str)>>)

\* the counts the web view shows (none before the first assignment to DATA)
ShownCounts == IF js.hasDATA THEN js.DATA ELSE <<>>

\* the aggregation of the current dataset over the selected column and the
\* map drawn; empty without a dataset or without a selectable column
CurrentCounts ==
    IF data.isNone \/ selected_attr = <<>> \/ js.MAP_CODE = "" THEN <<>>
    ELSE CountRows(<<>>, CurrentLocations,
                   MapTables(js.MAP_CODE).inv, MapTables(js.MAP_CODE).cc)

\* C9 as stated: once every deferred callback has run, the counts shown are
\* those of the current dataset, and empty without dataset or column.
C9_ShownCountsCurrent == pending = <<>> => ShownCounts = CurrentCounts

\* C10 as stated: the value standing on 'Corpus' is None or a subset of the
\* rows of the current dataset.
C10_OutputOfCurrentData ==
    out.isNone \/ (out.src = data /\ out.idx \subseteq DOMAIN data.rows)

====
